---- MODULE Spec2Model ----
(***************************************************************************)
(* A model of src/modules/manifest.py: the Manifest aggregate             *)
(* (set_content, __setitem__) and the engines that read it (difference,   *)
(* comm, duplicates).                                                      *)
(*                                                                         *)
(* An action object is a record [id, name, attrs]: id is the object's     *)
(* identity (Python's id(a)), modelled as <<manifest, allocation index>>; *)
(* attrs is the attribute dictionary as a set of <<key, value>> pairs of  *)
(* strings.  Python's None is the record None.                             *)
(***************************************************************************)
EXTENDS Integers, Sequences, FiniteSets, TLC

VARIABLES
    mans,   \* the Manifest objects: mans[m] holds the fields of manifest m
    call,   \* the last call made: its name and its arguments
    ret     \* what that call returned, or the exception it raised

vars == <<mans, call, ret>>

\* ------------------------------------------------------------------ bounds
MaxLines == 2       \* lines of a content given to set_content (Spec)
MaxDiffLines == 2   \* lines of a content in SpecDiff and SpecComm
MaxDupLines == 3    \* lines of a content in SpecDup

\* --------------------------------------------------------- program constants
ACTION_DIR == 10
ACTION_FILE == 20
ACTION_DEPEND == 400

\* ------------------------------------------------------------- dictionaries
\* A dict of strings as a set of <<key, value>> pairs with unique keys.
Has(d, k) == \E p \in d : p[1] = k
Get(d, k) == (CHOOSE p \in d : p[1] = k)[2]
Put(d, k, v) == {p \in d : p[1] # k} \cup {<<k, v>>}
Keys(d) == {p[1] : p \in d}

None == [id |-> <<0, 0>>, name |-> "None", attrs |-> {}]

Range(s) == {s[i] : i \in 1..Len(s)}

\* ------------------------------------------------- the Action abstraction
\* key_attr of each action class.
KeyAttr(name) ==
    CASE name = "dir" -> "path"
      [] name = "file" -> "path"
      [] name = "license" -> "license"
      [] name = "set" -> "name"
      [] name = "depend" -> "fmri"
      [] OTHER -> "None"

\* (a.name, a.attrs.get(a.key_attr, id(a))): the identity key.  The second
\* component is a string or an int in Python; the tag keeps the two apart.
IdKey(a) ==
    IF Has(a.attrs, KeyAttr(a.name))
    THEN <<a.name, "attr", <<Get(a.attrs, KeyAttr(a.name))>>>>
    ELSE <<a.name, "id", a.id>>

\* a.different(b): content-differs on the attribute dictionaries.
different(a, b) == a.attrs # b.attrs

\* c(a) for the callables a caller puts in an exclude list.
Allow(c, a) ==
    CASE c = "no_file" -> a.name # "file"
      [] c = "no_license" -> a.name # "license"
      [] OTHER -> TRUE

\* action.include_this(excludes); also the for/else of gen_actions.
include_this(a, excludes) == \A i \in 1..Len(excludes) : Allow(excludes[i], a)

\* action.get_varcet_keys(): the variant and the facet attribute names.
VariantKeys(a) == {k \in Keys(a.attrs) : k \in {"variant.arch"}}
FacetKeys(a) == {k \in Keys(a.attrs) : k \in {"facet.doc"}}

\* int(s) on the decimal strings that occur.
StrToInt(s) ==
    CASE s = "0" -> 0
      [] s = "1" -> 1
      [] s = "2" -> 2

\* s.lstrip(os.path.sep) on the paths that occur.
LstripSep(s) ==
    CASE s = "/usr" -> "usr"
      [] s = "//usr" -> "usr"
      [] s = "/usr/f" -> "usr/f"
      [] OTHER -> s

\* -------------------------------------------------------------- Manifest
\* Manifest.__init__
NewManifest ==
    [fmri |-> "None", size |-> 0, actions |-> <<>>,
     actions_bytype |-> [n \in {} |-> <<>>],
     variants |-> [n \in {} |-> {}], facets |-> [n \in {} |-> {}],
     attributes |-> {}]

\* d[v] = set([x]) if v not in d else d[v].add(x), for every v of ks
AddVarcets(d, ks, a) ==
    [v \in DOMAIN d \cup ks |->
        IF v \in ks
        THEN (IF v \in DOMAIN d THEN d[v] ELSE {}) \cup {Get(a.attrs, v)}
        ELSE d[v]]

\* The body of set_content's loop from the inclusion test on: the action is
\* appended to actions and to its actions_bytype list, and a set action
\* fills attributes (first occurrence wins; a missing value is ignored).
Admit(man, a) ==
    [man EXCEPT
        !.size = @ + StrToInt(IF Has(a.attrs, "pkg.size")
                              THEN Get(a.attrs, "pkg.size") ELSE "0"),
        !.actions = Append(@, a),
        !.actions_bytype =
            [n \in DOMAIN @ \cup {a.name} |->
                IF n = a.name
                THEN (IF n \in DOMAIN @ THEN Append(@[n], a) ELSE <<a>>)
                ELSE @[n]],
        !.attributes =
            IF a.name = "set" /\ Has(a.attrs, "name")
                  /\ ~Has(@, Get(a.attrs, "name")) /\ Has(a.attrs, "value")
            THEN Put(@, Get(a.attrs, "name"), Get(a.attrs, "value"))
            ELSE @,
        !.variants = AddVarcets(@, VariantKeys(a), a),
        !.facets = AddVarcets(@, FacetKeys(a), a)]

\* The two rewrites set_content applies to a parsed action: the attribute
\* name authority becomes publisher, and a path loses its leading separators.
Normalise(attrs, name) ==
    LET a1 == IF name = "set" /\ Get(attrs, "name") = "authority"
              THEN Put(attrs, "name", "publisher") ELSE attrs
    IN IF Has(a1, "path") THEN Put(a1, "path", LstripSep(Get(a1, "path")))
       ELSE a1

\* set_content's loop over content.splitlines(), from the state man.  A line
\* is what actions.fromstr makes of it: kind "skip" (blank or comment),
\* "bad" (fromstr raises ActionError) or "action" with a name and attrs.
\* The result is the manifest as the loop leaves it and the exception that
\* ended it, if any.
RECURSIVE ParseLines(_, _, _, _)
ParseLines(m, man, content, excludes) ==
    IF content = <<>> THEN [man |-> man, exc |-> "None"]
    ELSE
        LET l == Head(content)
            rest == Tail(content)
        IN  IF l.kind = "skip" THEN ParseLines(m, man, rest, excludes)
            ELSE IF l.kind = "bad" THEN [man |-> man, exc |-> "ActionError"]
            ELSE IF l.name = "set" /\ ~Has(l.attrs, "name")
                 THEN [man |-> man, exc |-> "KeyError"]
            ELSE
                LET a == [id |-> <<m, Len(man.actions) + 1>>, name |-> l.name,
                          attrs |-> Normalise(l.attrs, l.name)]
                IN  IF ~include_this(a, excludes)
                    THEN ParseLines(m, man, rest, excludes)
                    ELSE ParseLines(m, Admit(man, a), rest, excludes)

\* Manifest.set_content(content, excludes): every field but fmri is reset,
\* then the lines are parsed.
set_content(m, man, content, excludes) ==
    ParseLines(m, [NewManifest EXCEPT !.fmri = man.fmri], content, excludes)

\* a.attrs["value"] = value on the object with identity id, wherever the
\* list s refers to it.
SetValueIn(s, id, value) ==
    [i \in 1..Len(s) |->
        IF s[i].id = id
        THEN [s[i] EXCEPT !.attrs = Put(@, "value", value)]
        ELSE s[i]]

\* The set actions of man.actions the loop of __setitem__ stops at: the
\* first that lacks a name (KeyError) or is named key.
SetStops(man, key) ==
    {i \in 1..Len(man.actions) :
        /\ man.actions[i].name = "set"
        /\ (~Has(man.actions[i].attrs, "name")
            \/ Get(man.actions[i].attrs, "name") = key)}

\* The last index instead of the first.
Max(S) == CHOOSE x \in S : \A y \in S : x >= y

Min(S) == CHOOSE x \in S : \A y \in S : x <= y

\* Manifest.__setitem__(key, value)
setitem(m, man, key, value) ==
    LET man1 == [man EXCEPT !.attributes = Put(@, key, value)]
        stops == SetStops(man, key)
    IN  IF stops # {}
        THEN LET a == man.actions[Min(stops)]
             IN  IF ~Has(a.attrs, "name")
                 THEN [man |-> man1, exc |-> "KeyError"]
                 ELSE [man |->
                         [man1 EXCEPT
                            !.actions = SetValueIn(@, a.id, value),
                            !.actions_bytype =
                                [n \in DOMAIN @ |-> SetValueIn(@[n], a.id, value)]],
                       exc |-> "None"]
        ELSE LET new_attr == [id |-> <<m, Len(man.actions) + 1>>, name |-> "set",
                              attrs |-> {<<"name", key>>, <<"value", value>>}]
             IN  [man |-> [man1 EXCEPT !.actions = Append(@, new_attr)],
                  exc |-> "None"]

\* ------------------------------------------------------------ the engines
\* Manifest.gen_actions(excludes): the actions every callable lets through.
RECURSIVE gen_actions(_, _)
gen_actions(acts, excludes) ==
    IF acts = <<>> THEN <<>>
    ELSE IF include_this(Head(acts), excludes)
         THEN <<Head(acts)>> \o gen_actions(Tail(acts), excludes)
         ELSE gen_actions(Tail(acts), excludes)

\* dict(((a.name, a.attrs.get(a.key_attr, id(a))), a) for a in acts): a later
\* action replaces an earlier one under the same key.
KeyDict(acts) ==
    [k \in {IdKey(acts[i]) : i \in 1..Len(acts)} |->
        acts[CHOOSE i \in 1..Len(acts) :
                /\ IdKey(acts[i]) = k
                /\ \A j \in 1..Len(acts) : IdKey(acts[j]) = k => j <= i]]

\* The numeric priority of a category (the ord of its action class).
Ord(name) ==
    CASE name = "dir" -> ACTION_DIR
      [] name = "file" -> ACTION_FILE
      [] name = "depend" -> ACTION_DEPEND
      [] OTHER -> ACTION_DEPEND + 1

\* The rank of a string among the strings that occur, as Python orders them.
StrRank(s) ==
    CASE s = "L" -> 1
      [] s = "a" -> 2
      [] s = "depend" -> 3
      [] s = "dir" -> 4
      [] s = "file" -> 5
      [] s = "license" -> 6
      [] s = "publisher" -> 7
      [] s = "set" -> 8
      [] s = "usr" -> 9
      [] s = "usr/f" -> 10
      [] OTHER -> 0

\* cmp(id(a), id(b)): object addresses, in allocation order.
IdLess(i, j) == i[1] < j[1] \/ (i[1] = j[1] /\ i[2] < j[2])

\* a < b in the total order of actions (Action.__cmp__): the categories'
\* priorities first; within one priority the class's compare, which is the
\* path for two directories or two files and the object identity otherwise.
ActLess(a, b) ==
    \/ Ord(a.name) < Ord(b.name)
    \/ /\ Ord(a.name) = Ord(b.name)
       /\ IF a.name = b.name /\ a.name \in {"dir", "file"}
              /\ Has(a.attrs, "path") /\ Has(b.attrs, "path")
          THEN StrRank(Get(a.attrs, "path")) < StrRank(Get(b.attrs, "path"))
          ELSE IdLess(a.id, b.id)

\* One enumeration of a finite set, as a list comprehension over a set gives.
RECURSIVE SetToSeq(_)
SetToSeq(S) ==
    IF S = {} THEN <<>>
    ELSE LET x == CHOOSE y \in S : TRUE IN <<x>> \o SetToSeq(S \ {x})

\* x put into the sorted list s after every element that is not above it
\* (list.sort is stable).
RECURSIVE InsertAsc(_, _, _)
InsertAsc(s, p, side) ==
    IF s = <<>> THEN <<p>>
    ELSE IF ActLess(p[side], Head(s)[side]) THEN <<p>> \o s
         ELSE <<Head(s)>> \o InsertAsc(Tail(s), p, side)

\* pairs.sort(key = lambda x: x[side])
RECURSIVE SortAsc(_, _)
SortAsc(s, side) ==
    IF s = <<>> THEN <<>>
    ELSE InsertAsc(SortAsc(SubSeq(s, 1, Len(s) - 1), side), s[Len(s)], side)

RECURSIVE InsertDesc(_, _, _)
InsertDesc(s, p, side) ==
    IF s = <<>> THEN <<p>>
    ELSE IF ActLess(Head(s)[side], p[side]) THEN <<p>> \o s
         ELSE <<Head(s)>> \o InsertDesc(Tail(s), p, side)

\* pairs.sort(key = lambda x: x[side], reverse = True)
RECURSIVE SortDesc(_, _)
SortDesc(s, side) ==
    IF s = <<>> THEN <<>>
    ELSE InsertDesc(SortDesc(SubSeq(s, 1, Len(s) - 1), side), s[Len(s)], side)

\* ChangedKeys without the license rule: only content-different actions.
ChangedKeysNoLicense(odict, sdict) ==
    {i \in DOMAIN odict \cap DOMAIN sdict : different(odict[i], sdict[i])}

\* The keys of the changed list: in both dictionaries, and content-different
\* or of the license category.
ChangedKeys(odict, sdict) ==
    {i \in DOMAIN odict \cap DOMAIN sdict :
        different(odict[i], sdict[i]) \/ i[1] = "license"}

\* AddedPairs without the subtraction of the origin's keys.
AddedPairsAll(odict, sdict) ==
    SetToSeq({<<None, sdict[i]>> : i \in DOMAIN sdict})

\* The additions of difference, before sorting.
AddedPairs(odict, sdict) ==
    SetToSeq({<<None, sdict[i]>> : i \in DOMAIN sdict \ DOMAIN odict})

\* The removals of difference, before sorting.
RemovedPairs(odict, sdict) ==
    SetToSeq({<<odict[i], None>> : i \in DOMAIN odict \ DOMAIN sdict})

\* SortDifference without reverse = True on the removals.
SortDifferenceForward(added, changed, removed) ==
    <<SortAsc(added, 2), SortAsc(changed, 2), SortAsc(removed, 1)>>

\* The sorts that end difference: (added, changed, removed).
SortDifference(added, changed, removed) ==
    <<SortAsc(added, 2), SortAsc(changed, 2), SortDesc(removed, 1)>>

\* Manifest.difference(self, origin, origin_exclude, self_exclude)
difference(self, origin, origin_exclude, self_exclude) ==
    LET sdict == KeyDict(gen_actions(self.actions, self_exclude))
        odict == KeyDict(gen_actions(origin.actions, origin_exclude))
        changed == SetToSeq({<<odict[i], sdict[i]>> : i \in ChangedKeys(odict, sdict)})
    IN  SortDifference(AddedPairs(odict, sdict), changed, RemovedPairs(odict, sdict))

\* functools.reduce(lambda a, b: a & b, m_sets)
RECURSIVE Intersect(_)
Intersect(sets) ==
    IF Len(sets) = 1 THEN sets[1] ELSE sets[1] \cap Intersect(Tail(sets))

\* The keys comm leaves in common_keys: in every dictionary, and with no
\* adjacent pair of dictionaries holding content-different actions under it.
CommonKeys(m_dicts) ==
    {k \in Intersect([i \in 1..Len(m_dicts) |-> DOMAIN m_dicts[i]]) :
        \A i \in 1..(Len(m_dicts) - 1) : ~different(m_dicts[i][k], m_dicts[i + 1][k])}

\* Manifest.comm(*compare_m), before its list comprehensions enumerate the
\* key sets: for each manifest the set of its unique actions, and last the
\* set of the common actions, taken from the first manifest.
comm(compare_m) ==
    LET m_dicts == [i \in 1..Len(compare_m) |-> KeyDict(compare_m[i].actions)]
        common_keys == CommonKeys(m_dicts)
    IN  [i \in 1..(Len(compare_m) + 1) |->
            IF i <= Len(compare_m)
            THEN {m_dicts[i][k] : k \in DOMAIN m_dicts[i] \ common_keys}
            ELSE {m_dicts[1][k] : k \in common_keys}]

\* The lists that enumerate the finite set S: a set has no order of its own
\* (it is the hash order in Python), so a list built from it is any of them.
Enumerations(S) ==
    {s \in [1..Cardinality(S) -> S] : \A i, j \in 1..Cardinality(S) : s[i] = s[j] => i = j}

\* The tuples of lists that enumerate the sets of the tuple sets.
RECURSIVE EnumerateAll(_)
EnumerateAll(sets) ==
    IF sets = <<>> THEN {<<>>}
    ELSE {<<x>> \o rest : x \in Enumerations(Head(sets)), rest \in EnumerateAll(Tail(sets))}

\* k1 < k2 for two identity keys, as Python 2 compares the tuples: the names,
\* then the second components, where an int is below every string.
KeyLess(k1, k2) ==
    \/ StrRank(k1[1]) < StrRank(k2[1])
    \/ /\ k1[1] = k2[1]
       /\ \/ k1[2] = "id" /\ k2[2] = "attr"
          \/ k1[2] = "id" /\ k2[2] = "id" /\ IdLess(k1[3], k2[3])
          \/ k1[2] = "attr" /\ k2[2] = "attr" /\ StrRank(k1[3][1]) < StrRank(k2[3][1])

\* The keys of S in ascending order.
RECURSIVE SortKeys(_)
SortKeys(S) ==
    IF S = {} THEN <<>>
    ELSE LET k == CHOOSE x \in S : \A y \in S \ {x} : KeyLess(x, y)
         IN  <<k>> \o SortKeys(S \ {k})

\* The group groupby yields for key k from sorted(acts, key=fun): the sort is
\* stable, so the group is the actions of acts under k, in the order of acts.
RECURSIVE Group(_, _)
Group(acts, k) ==
    IF acts = <<>> THEN <<>>
    ELSE IF IdKey(Head(acts)) = k THEN <<Head(acts)>> \o Group(Tail(acts), k)
         ELSE Group(Tail(acts), k)

\* The set dups of one group: both actions of every adjacent pair that differs.
Dups(glist) ==
    UNION {{glist[i], glist[i + 1]} :
            i \in {j \in 1..(Len(glist) - 1) : different(glist[j], glist[j + 1])}}

\* Manifest.duplicates(excludes)
duplicates(man, excludes) ==
    LET acts == gen_actions(man.actions, excludes)
        keys == SortKeys({IdKey(acts[i]) : i \in 1..Len(acts)})
        hit == SelectSeq(keys, LAMBDA k : Dups(Group(acts, k)) # {})
    IN  [i \in 1..Len(hit) |-> <<hit[i], Dups(Group(acts, hit[i]))>>]

\* ------------------------------------------------------------------ inputs
Line(name, attrs) == [kind |-> "action", name |-> name, attrs |-> attrs]
SkipLine == [kind |-> "skip", name |-> "None", attrs |-> {}]
BadLine == [kind |-> "bad", name |-> "None", attrs |-> {}]

DirUsr == Line("dir", {<<"path", "/usr">>})
FileA == Line("file", {<<"path", "usr/f">>, <<"pkg.size", "1">>})
FileB == Line("file", {<<"path", "usr/f">>, <<"pkg.size", "2">>})
FileV == Line("file", {<<"path", "/usr/f">>, <<"variant.arch", "x">>})
Lic == Line("license", {<<"license", "L">>})
Dep == Line("depend", {<<"type", "require">>})
SetA == Line("set", {<<"name", "a">>, <<"value", "1">>})
SetAuth == Line("set", {<<"name", "authority">>, <<"value", "1">>})
SetNoValue == Line("set", {<<"name", "a">>})
SetNoName == Line("set", {<<"value", "1">>})

ParseUniverse ==
    {FileV, SetA, SetAuth, SetNoValue, SetNoName, SkipLine, BadLine}

\* The sequences over S of length at most n.
SeqsUpTo(S, n) == UNION {[1..k -> S] : k \in 0..n}

Manifests == {1, 2}
AttrKeys == {"a", "publisher"}
AttrValues == {"1", "2"}
ExcludeLists == {<<>>, <<"no_file">>}

NoCall == [op |-> "None"]
NoRet == [exc |-> "None", val |-> None]

\* ------------------------------------------------------------- the machine
Init ==
    /\ mans = [m \in Manifests |-> NewManifest]
    /\ call = NoCall
    /\ ret = NoRet

\* mans[m].set_content(content, excludes)
DoSetContent(m, content, excludes) ==
    LET r == set_content(m, mans[m], content, excludes)
    IN  /\ mans' = [mans EXCEPT ![m] = r.man]
        /\ call' = [op |-> "set_content", m |-> m, content |-> content,
                    excludes |-> excludes]
        /\ ret' = [exc |-> r.exc, val |-> None]

\* mans[m][key] = value
DoSetItem(m, key, value) ==
    LET r == setitem(m, mans[m], key, value)
    IN  /\ mans' = [mans EXCEPT ![m] = r.man]
        /\ call' = [op |-> "setitem", m |-> m, key |-> key, value |-> value]
        /\ ret' = [exc |-> r.exc, val |-> None]

SetContent ==
    \E content \in SeqsUpTo(ParseUniverse, MaxLines), ex \in ExcludeLists :
        DoSetContent(1, content, ex)

SetItem == \E key \in AttrKeys, value \in AttrValues : DoSetItem(1, key, value)

Next == SetContent \/ SetItem

Spec == Init /\ [][Next]_vars

\* ------------------------------------------------ the difference machine
\* difference is a function of two manifests and two exclude lists: the
\* manifests are drawn as set_content leaves them, and one call is made.
DiffUniverse == {DirUsr, FileA, FileB, Lic, Dep}
DiffCalls == {<<1, 1>>, <<1, 2>>, <<2, 1>>}

\* The manifests set_content builds from the contents over U of at most n lines.
Parsed(m, U, n) ==
    {set_content(m, NewManifest, content, <<>>).man : content \in SeqsUpTo(U, n)}

InitDiff ==
    /\ mans \in {[m \in Manifests |-> IF m = 1 THEN m1 ELSE m2] :
                    m1 \in Parsed(1, DiffUniverse, MaxDiffLines),
                    m2 \in Parsed(2, DiffUniverse, MaxDiffLines)}
    /\ call = NoCall
    /\ ret = NoRet

\* mans[dst].difference(mans[org], oex, sex)
Difference ==
    \E c \in DiffCalls, oex \in ExcludeLists, sex \in ExcludeLists :
        /\ call = NoCall
        /\ mans' = mans
        /\ call' = [op |-> "difference", dst |-> c[1], org |-> c[2],
                    origin_exclude |-> oex, self_exclude |-> sex]
        /\ ret' = [exc |-> "None",
                   val |-> difference(mans[c[1]], mans[c[2]], oex, sex)]

NextDiff == Difference

SpecDiff == InitDiff /\ [][NextDiff]_vars

\* ------------------------------------------------------ the comm machine
CommCalls == {<<1, 1, 1>>, <<1, 2>>}

InitComm == InitDiff

\* Manifest.comm(mans[c[1]], ..., mans[c[n]])
Comm ==
    \E c \in CommCalls :
        \E val \in EnumerateAll(comm([i \in 1..Len(c) |-> mans[c[i]]])) :
            /\ call = NoCall
            /\ mans' = mans
            /\ call' = [op |-> "comm", compare_m |-> c]
            /\ ret' = [exc |-> "None", val |-> val]

NextComm == Comm

SpecComm == InitComm /\ [][NextComm]_vars

\* ------------------------------------------------ the duplicates machine
DupUniverse == {DirUsr, FileA, FileB, Dep}

InitDup ==
    /\ mans \in {[m \in Manifests |-> IF m = 1 THEN m1 ELSE NewManifest] :
                    m1 \in Parsed(1, DupUniverse, MaxDupLines)}
    /\ call = NoCall
    /\ ret = NoRet

\* mans[1].duplicates(excludes)
Duplicates ==
    \E ex \in ExcludeLists :
        /\ call = NoCall
        /\ mans' = mans
        /\ call' = [op |-> "duplicates", m |-> 1, excludes |-> ex]
        /\ ret' = [exc |-> "None", val |-> duplicates(mans[1], ex)]

NextDup == Duplicates

SpecDup == InitDup /\ [][NextDup]_vars

\* =============================================================== the claims
\* The actions of acts named t, in order.
RECURSIVE FilterName(_, _)
FilterName(acts, t) ==
    IF acts = <<>> THEN <<>>
    ELSE IF Head(acts).name = t THEN <<Head(acts)>> \o FilterName(Tail(acts), t)
         ELSE FilterName(Tail(acts), t)

ByType(man, t) ==
    IF t \in DOMAIN man.actions_bytype THEN man.actions_bytype[t] ELSE <<>>

\* C1: in every state set_content and attribute writes reach, for every
\* category t, actions_bytype[t] is the sub-sequence of actions named t, in
\* the same order, and a category with no action has no non-empty entry.
C1_ByTypeIsFilter ==
    \A m \in Manifests :
        \A t \in DOMAIN mans[m].actions_bytype
                 \cup {a.name : a \in Range(mans[m].actions)} :
            ByType(mans[m], t) = FilterName(mans[m].actions, t)

\* A set line that lacks the name or the value attribute.
Malformed(l) ==
    /\ l.kind = "action"
    /\ l.name = "set"
    /\ (~Has(l.attrs, "name") \/ ~Has(l.attrs, "value"))

\* The lines of content that are actions the exclude list lets through.
Admitted(content, excludes) ==
    {i \in 1..Len(content) :
        content[i].kind = "action" /\ include_this(content[i], excludes)}

\* C9: a set_content whose content holds a malformed set line (and no line
\* the parser rejects) raises nothing, adds no attribute for a malformed
\* line, and processes every line into the aggregate.
C9_MalformedSetTolerated ==
    ( /\ call.op = "set_content"
      /\ \E i \in 1..Len(call.content) : Malformed(call.content[i])
      /\ \A i \in 1..Len(call.content) : call.content[i].kind # "bad" )
    =>
    ( /\ ret.exc = "None"
      /\ Len(mans[call.m].actions)
            = Cardinality(Admitted(call.content, call.excludes))
      /\ Keys(mans[call.m].attributes) \subseteq
            {Get(Normalise(call.content[i].attrs, "set"), "name") :
                i \in {j \in Admitted(call.content, call.excludes) :
                        /\ call.content[j].name = "set"
                        /\ ~Malformed(call.content[j])}} )

\* ---- difference
Added == ret.val[1]
Changed == ret.val[2]
Removed == ret.val[3]

SelfDiff ==
    /\ call.op = "difference"
    /\ call.dst = call.org
    /\ call.origin_exclude = <<>>
    /\ call.self_exclude = <<>>

LicenseKeys(acts) == {IdKey(a) : a \in {b \in Range(acts) : b.name = "license"}}

\* C2 as stated: M.difference(M) with empty exclude lists returns three
\* empty lists, whatever M holds.
C2_SelfDiffEmpty ==
    SelfDiff => Added = <<>> /\ Changed = <<>> /\ Removed = <<>>

\* C2 as amended: M.difference(M) with empty exclude lists returns empty
\* added and removed lists, and a changed list that holds one pair (l, l) for
\* each identity key of M's license actions and nothing else; so the changed
\* list is empty when M has no license action.
C2_SelfDiffOnlyLicense ==
    SelfDiff =>
        /\ Added = <<>>
        /\ Removed = <<>>
        /\ \A p \in Range(Changed) :
              p[1] = p[2] /\ p[2] \in Range(mans[call.dst].actions)
        /\ {IdKey(p[2]) : p \in Range(Changed)}
              = LicenseKeys(mans[call.dst].actions)
        /\ Len(Changed) = Cardinality(LicenseKeys(mans[call.dst].actions))

C2_Witness ==
    /\ SelfDiff
    /\ Len(Changed) = 1
    /\ Len(mans[call.dst].actions) = 2

\* The identity keys of the actions a list of difference's arguments yields.
KeysOf(acts, excludes) == {IdKey(a) : a \in Range(gen_actions(acts, excludes))}

\* C3: a license action present under one identity key in origin and in
\* destination, after exclusion, is in changed as a pair (origin's action,
\* destination's action) under that key, content-equal or not.
C3_LicenseAlwaysChanged ==
    call.op = "difference" =>
        \A k \in KeysOf(mans[call.org].actions, call.origin_exclude)
                 \cap KeysOf(mans[call.dst].actions, call.self_exclude) :
            k[1] = "license" =>
                \E p \in Range(Changed) :
                    /\ IdKey(p[1]) = k /\ p[1] \in Range(mans[call.org].actions)
                    /\ IdKey(p[2]) = k /\ p[2] \in Range(mans[call.dst].actions)

C3_Witness ==
    /\ call.op = "difference"
    /\ call.dst # call.org
    /\ \E p \in Range(Changed) :
          /\ p[1].name = "license"
          /\ ~different(p[1], p[2])
          /\ p[1].id # p[2].id

NoLicense(man) == \A a \in Range(man.actions) : a.name # "license"

\* C4: for manifests A and B without license actions and empty exclude
\* lists, the keys added by A.difference(B) are the keys removed by
\* B.difference(A), and the keys removed by the one are those added by the
\* other.
C4_SwapSymmetry ==
    ( /\ call.op = "difference"
      /\ call.origin_exclude = <<>> /\ call.self_exclude = <<>>
      /\ NoLicense(mans[call.dst]) /\ NoLicense(mans[call.org]) )
    =>
    LET back == difference(mans[call.org], mans[call.dst], <<>>, <<>>)
    IN  /\ {IdKey(p[2]) : p \in Range(Added)} = {IdKey(p[1]) : p \in Range(back[3])}
        /\ {IdKey(p[1]) : p \in Range(Removed)} = {IdKey(p[2]) : p \in Range(back[1])}

C4_Witness ==
    /\ call.op = "difference"
    /\ call.origin_exclude = <<>> /\ call.self_exclude = <<>>
    /\ NoLicense(mans[call.dst]) /\ NoLicense(mans[call.org])
    /\ Added # <<>>
    /\ Len(Removed) = 2

\* C5: the lists of difference are in execution order: added and changed
\* ascend in the total order of their destination actions, removed descends
\* in the total order of its origin actions; so a directory is added before
\* a file and a file is removed before a directory.
C5_ExecutionOrder ==
    call.op = "difference" =>
        /\ \A i, j \in 1..Len(Added) :
              i < j => /\ ~ActLess(Added[j][2], Added[i][2])
                       /\ ~(Added[i][2].name = "file" /\ Added[j][2].name = "dir")
        /\ \A i, j \in 1..Len(Changed) :
              i < j => ~ActLess(Changed[j][2], Changed[i][2])
        /\ \A i, j \in 1..Len(Removed) :
              i < j => /\ ~ActLess(Removed[i][1], Removed[j][1])
                       /\ ~(Removed[i][1].name = "dir" /\ Removed[j][1].name = "file")

C5_Witness ==
    /\ call.op = "difference"
    /\ Len(Added) = 2 /\ Added[1][2].name = "dir" /\ Added[2][2].name = "file"
    /\ mans[call.dst].actions[1].name = "file"
    /\ Len(Removed) = 2 /\ ActLess(Removed[2][1], Removed[1][1])
    /\ mans[call.org].actions[1] = Removed[2][1]

\* C6: the difference of M against the null manifest, with empty exclude
\* lists, has empty changed and removed lists and exactly one pair (None, a)
\* in added for every action a of M.actions.
C6_NullDiffComplete ==
    ( /\ call.op = "difference"
      /\ mans[call.org] = NewManifest
      /\ call.origin_exclude = <<>> /\ call.self_exclude = <<>> )
    =>
    ( /\ Changed = <<>>
      /\ Removed = <<>>
      /\ \A p \in Range(Added) : p[1] = None
      /\ {p[2] : p \in Range(Added)} = Range(mans[call.dst].actions)
      /\ Len(Added) = Len(mans[call.dst].actions) )

\* ---- comm
\* C7: comm(M, M, M) returns three empty unique lists and a common list that
\* holds every action of M.actions (each at least as a content-equal action).
C7_CommSelf ==
    (call.op = "comm" /\ call.compare_m = <<1, 1, 1>>) =>
        /\ ret.val[1] = <<>> /\ ret.val[2] = <<>> /\ ret.val[3] = <<>>
        /\ \A a \in Range(mans[1].actions) :
              \E b \in Range(ret.val[4]) : b.name = a.name /\ b.attrs = a.attrs

AllKeys(man) == {IdKey(a) : a \in Range(man.actions)}

\* C8: comm(A, B) for manifests whose identity-key sets are disjoint returns
\* A.actions, B.actions and an empty common list.
C8_CommDisjoint ==
    ( /\ call.op = "comm"
      /\ call.compare_m = <<1, 2>>
      /\ AllKeys(mans[1]) \cap AllKeys(mans[2]) = {} )
    =>
    ( /\ ret.val[1] = mans[1].actions
      /\ ret.val[2] = mans[2].actions
      /\ ret.val[3] = <<>> )

\* ---- duplicates
\* C10: for every group of non-excluded actions under one identity key, in
\* insertion order: if an adjacent pair of the group is content-different,
\* duplicates returns an entry for the key whose conflict set holds every
\* action of the group; otherwise it returns no entry for the key.
C10_WholeGroupConflicts ==
    call.op = "duplicates" =>
        LET acts == gen_actions(mans[call.m].actions, call.excludes)
        IN  \A k \in {IdKey(a) : a \in Range(acts)} :
                LET glist == Group(acts, k)
                    entries == {e \in Range(ret.val) : e[1] = k}
                IN  IF \E i \in 1..(Len(glist) - 1) : different(glist[i], glist[i + 1])
                    THEN \E e \in entries : Range(glist) \subseteq e[2]
                    ELSE entries = {}

\* ---- attributes
\* The indices of the set actions of acts named k.
SetNamed(acts, k) ==
    {i \in 1..Len(acts) :
        /\ acts[i].name = "set"
        /\ Has(acts[i].attrs, "name")
        /\ Get(acts[i].attrs, "name") = k}

\* The least index of a non-empty set of indices.
First(S) == CHOOSE i \in S : \A j \in S : i <= j

\* Those of them that carry a value attribute.
SetValued(acts, k) == {i \in SetNamed(acts, k) : Has(acts[i].attrs, "value")}

====
